---- MODULE Spec2Model ----
(***************************************************************************)
(* A model of src/commands/init.rs of git-branchless: the marker-delimited *)
(* block patcher of hook scripts (update_between_lines), the section       *)
(* patcher of the repository configuration (update_config_text), the hook  *)
(* installer (install_hook, write_script) and the init / uninstall         *)
(* commands.                                                               *)
(*                                                                         *)
(* A text is a sequence of atoms.  An atom is the line feed, the carriage  *)
(* return, or a piece of text that holds neither (a marker, the shebang, a *)
(* command line, a character of user content).  A line is a marker exactly *)
(* when it is the one-atom text of that marker.                            *)
(***************************************************************************)
EXTENDS Integers, Sequences, FiniteSets, TLC

VARIABLES
    bare_cr_kept,       \* build: str::lines() keeps a "\r" that ends the last, unterminated line
                        \* (the standard library as documented now) or strips it (as it did)
    arg_lines,          \* update_between_lines: the document first passed as `lines`
    arg_updated_lines,  \* update_between_lines: `updated_lines`
    input_lines,        \* the `lines` argument of the most recent call
    ret_new_lines,      \* the String the most recent call returned
    calls,              \* number of calls made so far
    arg_old_config,     \* update_config_text: the text first passed as `old_config`
    arg_config_path,    \* update_config_text: `config_path_relative`
    input_config,       \* the `old_config` argument of the most recent call
    ret_new_config,     \* the String the most recent call returned
    cfg_unix,           \* build: #[cfg(unix)]
    hooks_multi_exists, \* <repo>/hooks_multi exists
    regular_hook,       \* hook type -> the file <hooks dir>/<hook type>
    multi_hook,         \* hook type -> the file <repo>/hooks_multi/<hook type>.d/00_local_branchless
    subject_hook,       \* SpecHook: the hook type whose file is under study
    last_call,          \* the most recent call of install_hook: its arguments, Hook and outcome
    process_umask,      \* the umask of the process
    hooks_at_start,     \* history: hooks_multi_exists and the hook files as they were when
                        \* the command (in SpecSequence: the first call) started
    cfg_man_pages,      \* build: feature "man-pages"
    repo_config,        \* the text of <repo>/config
    isolated_config,    \* the file <repo>/branchless/config: whether it exists, and its entries
    man_pages,          \* whether write_man_pages has written the man pages
    undo_warning,       \* whether install_aliases has printed its warning about 'git undo'
    cmd,                \* the command run: "init", "uninstall", or "none"
    pc,                 \* the statement of the command that is next
    index,              \* the position of the loop over ALL_HOOKS or ALL_ALIASES
    result,             \* "running", or what the command returned: "Ok" or "Err"
    last_outcome,       \* what the most recent step of the command came to
    trace,              \* the steps of the command that completed, in order
    runs                \* number of commands started so far

betweenLinesVars == <<arg_lines, arg_updated_lines, input_lines, ret_new_lines>>
configTextVars == <<arg_old_config, arg_config_path, input_config, ret_new_config>>
fsVars == <<hooks_multi_exists, regular_hook, multi_hook>>
hookVars == <<cfg_unix, fsVars, subject_hook, last_call, process_umask, hooks_at_start>>
diskVars == <<fsVars, repo_config, isolated_config, man_pages>>
cmdVars == <<cfg_man_pages, repo_config, isolated_config, man_pages, undo_warning,
             cmd, pc, index, result, last_outcome, trace, runs>>
vars == <<bare_cr_kept, calls, betweenLinesVars, configTextVars, hookVars, cmdVars>>

(***************************************************************************)
(* Bounds of the model.                                                    *)
(***************************************************************************)
MaxLines == 4
MaxConfigLines == 4
MaxFileLines == 3
MaxCalls == 2
MaxRuns == 1
MaxAttempts == 2

(***************************************************************************)
(* Texts.                                                                  *)
(***************************************************************************)
NL == "\n"
CR == "\r"

SHEBANG == <<"#!/bin/sh">>
UPDATE_MARKER_START == <<"## START BRANCHLESS CONFIG">>
UPDATE_MARKER_END == <<"## END BRANCHLESS CONFIG">>

RECURSIVE TextsOver(_, _)
TextsOver(chars, n) ==
    IF n = 0 THEN {<<>>}
    ELSE LET shorter == TextsOver(chars, n - 1)
         IN  shorter \cup {Append(t, c) : t \in {u \in shorter : Len(u) = n - 1}, c \in chars}

\* Index of the first line feed of s, 0 when it has none.
FirstNL(s) ==
    IF \E i \in 1..Len(s) : s[i] = NL
    THEN CHOOSE i \in 1..Len(s) : s[i] = NL /\ \A j \in 1..(i - 1) : s[j] # NL
    ELSE 0

StripCR(l) ==
    IF Len(l) > 0 /\ l[Len(l)] = CR THEN SubSeq(l, 1, Len(l) - 1) ELSE l

\* str::lines(): the text split at "\n", the line ending ("\n" or "\r\n") removed;
\* a last line without ending is a line too.
RECURSIVE Lines(_)
Lines(s) ==
    IF s = <<>> THEN <<>>
    ELSE LET i == FirstNL(s)
         IN  IF i = 0
             THEN << IF bare_cr_kept THEN s ELSE StripCR(s) >>
             ELSE <<StripCR(SubSeq(s, 1, i - 1))>> \o Lines(SubSeq(s, i + 1, Len(s)))

(***************************************************************************)
(* The block patcher.                                                      *)
(***************************************************************************)
\* A variant of append_hook that leaves out the end marker.
append_hook_without_end(new_lines, hook_contents) ==
    new_lines \o UPDATE_MARKER_START \o <<NL>> \o hook_contents

append_hook(new_lines, hook_contents) ==
    new_lines \o UPDATE_MARKER_START \o <<NL>> \o hook_contents \o UPDATE_MARKER_END \o <<NL>>

\* The locals of update_between_lines before its loop.
ScanStart == [new_lines |-> <<>>, found_marker |-> FALSE, is_ignoring_lines |-> FALSE]

\* A variant of the loop iteration in which the end marker does not clear
\* is_ignoring_lines: the lines after the region are dropped.
ScanLine_never_resuming(st, line, updated_lines) ==
    IF line = UPDATE_MARKER_START
    THEN [new_lines |-> append_hook(st.new_lines, updated_lines),
          found_marker |-> TRUE,
          is_ignoring_lines |-> TRUE]
    ELSE IF line = UPDATE_MARKER_END
    THEN st
    ELSE IF ~st.is_ignoring_lines
    THEN [st EXCEPT !.new_lines = @ \o line \o <<NL>>]
    ELSE st

\* A variant of the loop iteration in which the start marker does not set
\* is_ignoring_lines: the old body of the region is copied after the new one.
ScanLine_keeping_body(st, line, updated_lines) ==
    IF line = UPDATE_MARKER_START
    THEN [new_lines |-> append_hook(st.new_lines, updated_lines),
          found_marker |-> TRUE,
          is_ignoring_lines |-> FALSE]
    ELSE IF line = UPDATE_MARKER_END
    THEN [st EXCEPT !.is_ignoring_lines = FALSE]
    ELSE IF ~st.is_ignoring_lines
    THEN [st EXCEPT !.new_lines = @ \o line \o <<NL>>]
    ELSE st

\* One iteration of the loop of update_between_lines.
ScanLine(st, line, updated_lines) ==
    IF line = UPDATE_MARKER_START
    THEN [new_lines |-> append_hook(st.new_lines, updated_lines),
          found_marker |-> TRUE,
          is_ignoring_lines |-> TRUE]
    ELSE IF line = UPDATE_MARKER_END
    THEN [st EXCEPT !.is_ignoring_lines = FALSE]
    ELSE IF ~st.is_ignoring_lines
    THEN [st EXCEPT !.new_lines = @ \o line \o <<NL>>]
    ELSE st

RECURSIVE ScanLines(_, _, _)
ScanLines(st, ls, updated_lines) ==
    IF ls = <<>> THEN st
    ELSE ScanLines(ScanLine(st, Head(ls), updated_lines), Tail(ls), updated_lines)

\* The warning of update_between_lines: the loop ended inside a region.
unterminated_warning(lines) ==
    ScanLines(ScanStart, Lines(lines), <<>>).is_ignoring_lines

\* A variant of update_between_lines that appends a block whether or not it
\* found a start marker.
update_between_lines_appending(lines, updated_lines) ==
    append_hook(ScanLines(ScanStart, Lines(lines), updated_lines).new_lines, updated_lines)

\* A variant of update_between_lines that closes an unterminated region with
\* another block.
update_between_lines_closing(lines, updated_lines) ==
    LET st == ScanLines(ScanStart, Lines(lines), updated_lines)
    IN  IF st.is_ignoring_lines \/ ~st.found_marker
        THEN append_hook(st.new_lines, updated_lines)
        ELSE st.new_lines

update_between_lines(lines, updated_lines) ==
    LET st == ScanLines(ScanStart, Lines(lines), updated_lines)
    IN  IF st.is_ignoring_lines THEN st.new_lines
        ELSE IF ~st.found_marker THEN append_hook(st.new_lines, updated_lines)
        ELSE st.new_lines

(***************************************************************************)
(* SpecBetweenLines: update_between_lines called, then called again on     *)
(* what it returned, with a document and a block drawn from bounded sets.  *)
(***************************************************************************)
\* A document of the given lines, each ended by "\n"; the last one only when
\* `terminated`.
RECURSIVE JoinLines(_)
JoinLines(ls) ==
    IF ls = <<>> THEN <<>> ELSE Head(ls) \o <<NL>> \o JoinLines(Tail(ls))

DocOf(ls, terminated) ==
    IF ls = <<>> \/ terminated THEN JoinLines(ls)
    ELSE JoinLines(SubSeq(ls, 1, Len(ls) - 1)) \o ls[Len(ls)]

\* What a line of an input document holds before its "\n": nothing, user text,
\* a marker, and user text or the start marker before "\r\n".
LineContents ==
    {<<>>, <<"a">>, <<"a", CR>>,
     UPDATE_MARKER_START, UPDATE_MARKER_END, UPDATE_MARKER_START \o <<CR>>}

Docs == {DocOf(ls, t) : ls \in TextsOver(LineContents, MaxLines), t \in BOOLEAN}

\* Blocks: empty, one line, the shape of the hook table's bodies, a CRLF line,
\* blocks without a final "\n", and blocks that hold a marker line.
Blocks ==
    {<<>>, <<"b", NL>>, <<NL, "b", NL>>, <<"b", CR, NL>>,
     <<"b">>, <<"b", NL, "b">>,
     UPDATE_MARKER_START \o <<NL>>, UPDATE_MARKER_END \o <<NL>>}

BetweenLinesIdle ==
    /\ arg_lines = <<>>
    /\ arg_updated_lines = <<>>
    /\ input_lines = <<>>
    /\ ret_new_lines = <<>>

ConfigTextIdle ==
    /\ arg_old_config = <<>>
    /\ arg_config_path = <<>>
    /\ input_config = <<>>
    /\ ret_new_config = <<>>

HookIdle ==
    /\ cfg_unix = TRUE
    /\ hooks_multi_exists = FALSE
    /\ regular_hook = <<>>
    /\ multi_hook = <<>>
    /\ subject_hook = ""
    /\ last_call = <<>>
    /\ process_umask = 0
    /\ hooks_at_start = <<>>

CmdIdle ==
    /\ cfg_man_pages = FALSE
    /\ repo_config = <<>>
    /\ isolated_config = <<>>
    /\ man_pages = FALSE
    /\ undo_warning = FALSE
    /\ cmd = "none"
    /\ pc = ""
    /\ index = 0
    /\ result = ""
    /\ last_outcome = ""
    /\ trace = <<>>
    /\ runs = 0

InitBetweenLines ==
    /\ bare_cr_kept \in BOOLEAN
    /\ arg_lines \in Docs
    /\ arg_updated_lines \in Blocks
    /\ input_lines = <<>>
    /\ ret_new_lines = <<>>
    /\ calls = 0
    /\ ConfigTextIdle
    /\ HookIdle
    /\ CmdIdle

CallUpdateBetweenLines ==
    /\ calls < MaxCalls
    /\ input_lines' = IF calls = 0 THEN arg_lines ELSE ret_new_lines
    /\ ret_new_lines' = update_between_lines(input_lines', arg_updated_lines)
    /\ calls' = calls + 1
    /\ UNCHANGED <<bare_cr_kept, arg_lines, arg_updated_lines, configTextVars, hookVars, cmdVars>>

NextBetweenLines == CallUpdateBetweenLines

SpecBetweenLines == InitBetweenLines /\ [][NextBetweenLines]_vars

(***************************************************************************)
(* The section patcher.                                                    *)
(***************************************************************************)
SECTION_START == "# git-branchless section start"
SECTION_END == "# git-branchless section end"

section_string(contents) ==
    <<SECTION_START, NL>> \o contents \o <<SECTION_END, NL>>

\* The argument of section_string in update_config_text.
include_contents(config_path_relative) ==
    <<"[include]", NL, "\tpath = \"">> \o config_path_relative
        \o <<"\"", NL, "\tpath = \"~/.gitconfig\"", NL>>

HeaderAt(text, i) == i + 1 <= Len(text) /\ text[i] = SECTION_START /\ text[i + 1] = NL
FooterAt(text, j) == j + 1 <= Len(text) /\ text[j] = SECTION_END /\ text[j + 1] = NL

\* section_regex(): "(?s)<header>\n(.*?)<footer>\n".  The leftmost match, and from
\* there the shortest: [found, first, last (of the match), group (the capture)].
section_regex_find(text) ==
    LET starts == {i \in 1..Len(text) :
                      HeaderAt(text, i) /\ \E j \in (i + 2)..Len(text) : FooterAt(text, j)}
    IN  IF starts = {} THEN [found |-> FALSE, first |-> 0, last |-> 0, group |-> <<>>]
        ELSE LET i == CHOOSE x \in starts : \A y \in starts : x <= y
                 j == CHOOSE x \in (i + 2)..Len(text) :
                         FooterAt(text, x) /\ \A y \in (i + 2)..(x - 1) : ~FooterAt(text, y)
             IN  [found |-> TRUE, first |-> i, last |-> j + 1,
                  group |-> SubSeq(text, i + 2, j - 1)]

\* The text of a reference to the capture group in a replacement string.
CAPTURE_REF == "$1"

\* Captures::expand: a replacement string with each reference to the capture
\* group replaced by what the group matched.
RECURSIVE expand(_, _)
expand(replacement, group) ==
    IF replacement = <<>> THEN <<>>
    ELSE (IF Head(replacement) = CAPTURE_REF THEN group ELSE <<Head(replacement)>>)
            \o expand(Tail(replacement), group)

\* Regex::replace with a string replacement: the first match only, replaced by
\* the expanded replacement; the text itself when nothing matches.
regex_replace(text, replacement) ==
    LET m == section_regex_find(text)
    IN  IF ~m.found THEN text
        ELSE SubSeq(text, 1, m.first - 1) \o expand(replacement, m.group)
                \o SubSeq(text, m.last + 1, Len(text))

\* A variant of update_config_text that puts a new section after the old text.
update_config_text_suffixing(old_config, config_path_relative) ==
    LET git_branchless_section == section_string(include_contents(config_path_relative))
    IN  IF section_regex_find(old_config).found
        THEN regex_replace(old_config, git_branchless_section)
        ELSE old_config \o git_branchless_section

update_config_text(old_config, config_path_relative) ==
    LET git_branchless_section == section_string(include_contents(config_path_relative))
    IN  IF section_regex_find(old_config).found
        THEN regex_replace(old_config, git_branchless_section)
        ELSE git_branchless_section \o old_config

(***************************************************************************)
(* SpecConfigText: update_config_text called, then called again on what it *)
(* returned, with a configuration text and a path drawn from bounded sets. *)
(***************************************************************************)
ConfigLineContents ==
    {<<"[blahblah]">>, <<SECTION_START>>, <<SECTION_END>>, <<"x", SECTION_START>>}

ConfigTexts ==
    {DocOf(ls, t) : ls \in TextsOver(ConfigLineContents, MaxConfigLines), t \in BOOLEAN}

\* The path init passes, another plain path, and paths that hold a reference to
\* the capture group.
ConfigPaths == {<<"branchless/config">>, <<"other/config">>, <<CAPTURE_REF>>, <<"dir/", CAPTURE_REF>>}

InitConfigText ==
    /\ bare_cr_kept = FALSE
    /\ arg_old_config \in ConfigTexts
    /\ arg_config_path \in ConfigPaths
    /\ input_config = <<>>
    /\ ret_new_config = <<>>
    /\ calls = 0
    /\ BetweenLinesIdle
    /\ HookIdle
    /\ CmdIdle

CallUpdateConfigText ==
    /\ calls < MaxCalls
    /\ input_config' = IF calls = 0 THEN arg_old_config ELSE ret_new_config
    /\ ret_new_config' = update_config_text(input_config', arg_config_path)
    /\ calls' = calls + 1
    /\ UNCHANGED <<bare_cr_kept, arg_old_config, arg_config_path, betweenLinesVars, hookVars, cmdVars>>

NextConfigText == CallUpdateConfigText

SpecConfigText == InitConfigText /\ [][NextConfigText]_vars

(***************************************************************************)
(* The hook table and the hook files.  A backquote of the source is written *)
(* as a quote: a string of the module cannot hold a backquote.             *)
(***************************************************************************)
ALL_HOOKS ==
    << [hook_type |-> "post-commit",
        hook_script |-> <<NL, "git branchless hook-post-commit \"$@\"", NL>>],
       [hook_type |-> "post-merge",
        hook_script |-> <<NL, "git branchless hook-post-merge \"$@\"", NL>>],
       [hook_type |-> "post-rewrite",
        hook_script |-> <<NL, "git branchless hook-post-rewrite \"$@\"", NL>>],
       [hook_type |-> "post-checkout",
        hook_script |-> <<NL, "git branchless hook-post-checkout \"$@\"", NL>>],
       [hook_type |-> "pre-auto-gc",
        hook_script |-> <<NL, "git branchless hook-pre-auto-gc \"$@\"", NL>>],
       [hook_type |-> "reference-transaction",
        hook_script |->
            <<NL,
              "# Avoid canceling the reference transaction in the case that 'branchless' fails", NL,
              "# for whatever reason.", NL,
              "git branchless hook-reference-transaction \"$@\" || (", NL,
              "echo 'branchless: Failed to process reference transaction!'", NL,
              "echo 'branchless: Some events (e.g. branch updates) may have been lost.'", NL,
              "echo 'branchless: This is a bug. Please report it.'", NL,
              ")", NL>>] >>

HookTypes == {ALL_HOOKS[i].hook_type : i \in DOMAIN ALL_HOOKS}

\* The script the hook table gives for a hook type.
HookScript(hook_type) ==
    LET i == CHOOSE k \in DOMAIN ALL_HOOKS : ALL_HOOKS[k].hook_type = hook_type
    IN  ALL_HOOKS[i].hook_script

\* The script uninstall_hooks installs for every hook type.
UNINSTALLED_SCRIPT ==
    <<NL, "# This hook has been uninstalled.", NL,
      "# Run 'git branchless init' to reinstall.", NL>>

\* A file: whether it exists, its contents and, in a build for Unix, its
\* permission bits (0 in another build).
NoFile == [exists |-> FALSE, contents |-> <<>>, mode |-> 0]

RECURSIVE BitOr(_, _)
BitOr(a, b) ==
    IF a = 0 THEN b
    ELSE IF b = 0 THEN a
    ELSE (IF a % 2 = 1 \/ b % 2 = 1 THEN 1 ELSE 0) + 2 * BitOr(a \div 2, b \div 2)

RECURSIVE BitAnd(_, _)
BitAnd(a, b) ==
    IF a = 0 \/ b = 0 THEN 0
    ELSE (IF a % 2 = 1 /\ b % 2 = 1 THEN 1 ELSE 0) + 2 * BitAnd(a \div 2, b \div 2)

\* 0o111, the execute bits write_script sets.
EXECUTE_BITS == 73
\* 0o666, the mode std::fs::write asks for when it creates a file.
CREATE_MODE == 438
\* 0o777
ALL_MODE_BITS == 511

\* A variant of determine_hook_path that does not look for <repo>/hooks_multi.
determine_hook_path_flat(multi_hooks_path_exists) == "RegularHook"

\* enum Hook, as determine_hook_path chooses it.
determine_hook_path(multi_hooks_path_exists) ==
    IF multi_hooks_path_exists THEN "MultiHook" ELSE "RegularHook"

\* What a call of install_hook can come to: "ok", or the call that failed.
\* "read_to_string" (only called for a RegularHook) stands for a failure of
\* get_core_hooks_path too, "write" for one of create_dir_all too (nothing is
\* written), "set_permissions" (only in a build for Unix) for one of metadata too
\* (the contents are written, the permissions are as they were).
InstallOutcomes(kind) ==
    {"ok", "write"}
        \cup (IF kind = "RegularHook" THEN {"read_to_string"} ELSE {})
        \cup (IF cfg_unix THEN {"set_permissions"} ELSE {})

\* A variant of write_script that leaves the permissions as std::fs::write
\* left them.
write_script_without_chmod(file, contents, outcome, umask) ==
    IF outcome = "write" THEN file
    ELSE [exists |-> TRUE,
          contents |-> contents,
          mode |-> IF ~cfg_unix THEN 0
                   ELSE IF file.exists THEN file.mode
                   ELSE BitAnd(CREATE_MODE, ALL_MODE_BITS - umask)]

\* A variant of write_script that sets the permissions to 0o755 whatever they
\* were.
write_script_fixed_mode(file, contents, outcome, umask) ==
    IF outcome = "write" THEN file
    ELSE LET written == [exists |-> TRUE,
                         contents |-> contents,
                         mode |-> IF ~cfg_unix THEN 0
                                  ELSE IF file.exists THEN file.mode
                                  ELSE BitAnd(CREATE_MODE, ALL_MODE_BITS - umask)]
         IN  IF cfg_unix /\ outcome = "ok"
             THEN [written EXCEPT !.mode = 493]
             ELSE written

\* write_script: the file at `path` afterwards.
write_script(file, contents, outcome, umask) ==
    IF outcome = "write" THEN file
    ELSE LET written == [exists |-> TRUE,
                         contents |-> contents,
                         mode |-> IF ~cfg_unix THEN 0
                                  ELSE IF file.exists THEN file.mode
                                  ELSE BitAnd(CREATE_MODE, ALL_MODE_BITS - umask)]
         IN  IF cfg_unix /\ outcome = "ok"
             THEN [written EXCEPT !.mode = BitOr(@, EXECUTE_BITS)]
             ELSE written

\* A variant of the contents in which a file that exists gets a block appended
\* without a look at its markers.
new_hook_contents_appending(kind, file, hook_contents) ==
    IF kind = "RegularHook"
    THEN IF file.exists
         THEN append_hook(file.contents, hook_contents)
         ELSE SHEBANG \o <<NL>> \o UPDATE_MARKER_START \o <<NL>> \o hook_contents \o <<NL>>
                 \o UPDATE_MARKER_END \o <<NL>>
    ELSE SHEBANG \o <<NL>> \o hook_contents

\* A variant of the contents in which a fragment file is patched or created as
\* a flat file is.
new_hook_contents_patching_fragment(kind, file, hook_contents) ==
    IF file.exists
    THEN update_between_lines(file.contents, hook_contents)
    ELSE SHEBANG \o <<NL>> \o UPDATE_MARKER_START \o <<NL>> \o hook_contents \o <<NL>>
             \o UPDATE_MARKER_END \o <<NL>>

\* A variant of the contents in which a file that exists is written anew, as a
\* file that does not exist is.
new_hook_contents_overwriting(kind, file, hook_contents) ==
    IF kind = "RegularHook"
    THEN SHEBANG \o <<NL>> \o UPDATE_MARKER_START \o <<NL>> \o hook_contents \o <<NL>>
             \o UPDATE_MARKER_END \o <<NL>>
    ELSE SHEBANG \o <<NL>> \o hook_contents

\* The contents update_hook_contents hands to write_script.
new_hook_contents(kind, file, hook_contents) ==
    IF kind = "RegularHook"
    THEN IF file.exists
         THEN update_between_lines(file.contents, hook_contents)
         ELSE SHEBANG \o <<NL>> \o UPDATE_MARKER_START \o <<NL>> \o hook_contents \o <<NL>>
                 \o UPDATE_MARKER_END \o <<NL>>
    ELSE SHEBANG \o <<NL>> \o hook_contents

\* update_hook_contents: the file of the hook afterwards.
update_hook_contents(kind, file, hook_contents, outcome, umask) ==
    IF outcome = "read_to_string" THEN file
    ELSE write_script(file, new_hook_contents(kind, file, hook_contents), outcome, umask)

\* install_hook(repo, hook_type, hook_script), coming to `outcome`.
install_hook(hook_type, hook_script, outcome, umask) ==
    LET kind == determine_hook_path(hooks_multi_exists)
    IN  /\ outcome \in InstallOutcomes(kind)
        /\ regular_hook' =
              IF kind = "RegularHook"
              THEN [regular_hook EXCEPT ![hook_type] =
                       update_hook_contents(kind, @, hook_script, outcome, umask)]
              ELSE regular_hook
        /\ multi_hook' =
              IF kind = "MultiHook"
              THEN [multi_hook EXCEPT ![hook_type] =
                       update_hook_contents(kind, @, hook_script, outcome, umask)]
              ELSE multi_hook
        /\ last_call' = [hook_type |-> hook_type, hook_script |-> hook_script,
                         kind |-> kind, outcome |-> outcome]
        /\ UNCHANGED hooks_multi_exists

\* The file a call of install_hook for `hook_type` would write now.
HookFile(hook_type) ==
    IF hooks_multi_exists THEN multi_hook[hook_type] ELSE regular_hook[hook_type]

\* hooks_multi_exists and the hook files as they are now.
HooksNow ==
    [hooks_multi_exists |-> hooks_multi_exists,
     regular_hook |-> regular_hook,
     multi_hook |-> multi_hook]

NoCall == [hook_type |-> "", hook_script |-> <<>>, kind |-> "", outcome |-> ""]

\* The umask of the process: 0o022 or 0o077.
Umasks == {18, 63}
\* The permission bits of a hook file that exists before the first call: 0o644, 0o750.
InitialModes == {420, 488}
\* The hook types SpecHook studies: one with a script of one line, and the one
\* with a script of several lines.
SubjectHooks == {"post-commit", "reference-transaction"}

(***************************************************************************)
(* SpecHook: install_hook called for one hook type, with its script of the *)
(* hook table or with the script of uninstall_hooks, on a hook file that   *)
(* is absent or holds any document; the hooks_multi directory may be made  *)
(* or removed between the calls.                                           *)
(***************************************************************************)
HookFileLineContents ==
    {<<>>, <<"a">>, UPDATE_MARKER_START, UPDATE_MARKER_END, UPDATE_MARKER_START \o <<CR>>}

HookFileDocs ==
    {DocOf(ls, t) : ls \in TextsOver(HookFileLineContents, MaxFileLines), t \in BOOLEAN}

InitialHookFiles ==
    {NoFile} \cup {[exists |-> TRUE, contents |-> d, mode |-> 420] : d \in HookFileDocs}

InitHook ==
    /\ bare_cr_kept \in BOOLEAN
    /\ cfg_unix = TRUE
    /\ subject_hook \in SubjectHooks
    /\ hooks_multi_exists \in BOOLEAN
    /\ \E f \in InitialHookFiles :
          regular_hook = [h \in HookTypes |-> IF h = subject_hook THEN f ELSE NoFile]
    /\ multi_hook = [h \in HookTypes |-> NoFile]
    /\ last_call = NoCall
    /\ process_umask = 18
    /\ hooks_at_start = <<>>
    /\ calls = 0
    /\ BetweenLinesIdle
    /\ ConfigTextIdle
    /\ CmdIdle

\* install_hooks' call of install_hook for the subject hook.
CallInstallHook ==
    /\ calls < MaxCalls
    /\ \E i \in DOMAIN ALL_HOOKS, outcome \in InstallOutcomes("RegularHook") :
          /\ ALL_HOOKS[i].hook_type = subject_hook
          /\ install_hook(subject_hook, ALL_HOOKS[i].hook_script, outcome, process_umask)
    /\ calls' = calls + 1
    /\ UNCHANGED <<bare_cr_kept, cfg_unix, subject_hook, process_umask, hooks_at_start,
                   betweenLinesVars, configTextVars, cmdVars>>

\* uninstall_hooks' call of install_hook for the subject hook.
CallUninstallHook ==
    /\ calls < MaxCalls
    /\ \E outcome \in InstallOutcomes("RegularHook") :
          install_hook(subject_hook, UNINSTALLED_SCRIPT, outcome, process_umask)
    /\ calls' = calls + 1
    /\ UNCHANGED <<bare_cr_kept, cfg_unix, subject_hook, process_umask, hooks_at_start,
                   betweenLinesVars, configTextVars, cmdVars>>

\* The environment makes <repo>/hooks_multi.
MakeHooksMulti ==
    /\ ~hooks_multi_exists
    /\ hooks_multi_exists' = TRUE
    /\ UNCHANGED <<bare_cr_kept, calls, betweenLinesVars, configTextVars,
                   cfg_unix, regular_hook, multi_hook, subject_hook, last_call,
                   process_umask, hooks_at_start, cmdVars>>

\* The environment removes <repo>/hooks_multi and the files under it.
RemoveHooksMulti ==
    /\ hooks_multi_exists
    /\ hooks_multi_exists' = FALSE
    /\ multi_hook' = [h \in HookTypes |-> NoFile]
    /\ UNCHANGED <<bare_cr_kept, calls, betweenLinesVars, configTextVars,
                   cfg_unix, regular_hook, subject_hook, last_call, process_umask,
                   hooks_at_start, cmdVars>>

NextHook == CallInstallHook \/ CallUninstallHook \/ MakeHooksMulti \/ RemoveHooksMulti

SpecHook == InitHook /\ [][NextHook]_vars

(***************************************************************************)
(* SpecSequence: install_hook called again and again for one hook type, by *)
(* install_hooks or by uninstall_hooks, in a repository without            *)
(* hooks_multi whose hook file is absent or holds no marker line; the file *)
(* as it was before the first call is remembered.                          *)
(***************************************************************************)
InitSequence ==
    /\ bare_cr_kept \in BOOLEAN
    /\ cfg_unix = TRUE
    /\ subject_hook \in SubjectHooks
    /\ hooks_multi_exists = FALSE
    /\ \E f \in InitialHookFiles :
          /\ f.exists => /\ \A i \in DOMAIN Lines(f.contents) :
                               Lines(f.contents)[i] \notin {UPDATE_MARKER_START, UPDATE_MARKER_END}
          /\ regular_hook = [h \in HookTypes |-> IF h = subject_hook THEN f ELSE NoFile]
    /\ multi_hook = [h \in HookTypes |-> NoFile]
    /\ last_call = NoCall
    /\ process_umask = 18
    /\ hooks_at_start = HooksNow
    /\ calls = 0
    /\ BetweenLinesIdle
    /\ ConfigTextIdle
    /\ CmdIdle

NextSequence == CallInstallHook \/ CallUninstallHook

SpecSequence == InitSequence /\ [][NextSequence]_vars

(***************************************************************************)
(* SpecExisting: install_hook called again and again for one hook type, by *)
(* install_hooks or by uninstall_hooks, in a repository without            *)
(* hooks_multi whose hook file exists and holds any document, well-formed  *)
(* or not; the file as it was before the first call is remembered.  The   *)
(* hook type is the first of the table.                                    *)
(***************************************************************************)
InitExisting ==
    /\ bare_cr_kept \in BOOLEAN
    /\ cfg_unix = TRUE
    /\ subject_hook = ALL_HOOKS[1].hook_type
    /\ hooks_multi_exists = FALSE
    /\ \E f \in InitialHookFiles :
          /\ f.exists
          /\ regular_hook = [h \in HookTypes |-> IF h = subject_hook THEN f ELSE NoFile]
    /\ multi_hook = [h \in HookTypes |-> NoFile]
    /\ last_call = NoCall
    /\ process_umask = 18
    /\ hooks_at_start = HooksNow
    /\ calls = 0
    /\ BetweenLinesIdle
    /\ ConfigTextIdle
    /\ CmdIdle

NextExisting == CallInstallHook \/ CallUninstallHook

SpecExisting == InitExisting /\ [][NextExisting]_vars

(***************************************************************************)
(* The alias table, the configuration files and the steps of the commands. *)
(***************************************************************************)
ALL_ALIASES ==
    << [from |-> "amend", to |-> "amend"],
       [from |-> "co", to |-> "checkout"],
       [from |-> "hide", to |-> "hide"],
       [from |-> "move", to |-> "move"],
       [from |-> "next", to |-> "next"],
       [from |-> "prev", to |-> "prev"],
       [from |-> "restack", to |-> "restack"],
       [from |-> "sl", to |-> "smartlog"],
       [from |-> "smartlog", to |-> "smartlog"],
       [from |-> "undo", to |-> "undo"],
       [from |-> "unhide", to |-> "unhide"] >>

\* config_path_relative of create_isolated_config: the path of the isolated
\* configuration file with respect to the repository, which INCLUDE_PATH_REGEX
\* matches.
CONFIG_PATH_RELATIVE == <<"branchless/config">>

\* A configuration file that git2 reads and writes: absent, or a set of
\* <<key, value>> entries.  Keys and values are texts.
NoConfig == [exists |-> FALSE, entries |-> {}]

\* Config::set
config_set(config, key, value) ==
    [exists |-> TRUE,
     entries |-> {e \in config.entries : e[1] # key} \cup {<<key, value>>}]

\* The first n of a sequence of <<key, value>> set in order.
RECURSIVE config_set_first(_, _, _)
config_set_first(config, kvs, n) ==
    IF n = 0 \/ kvs = <<>> THEN config
    ELSE config_set_first(config_set(config, Head(kvs)[1], Head(kvs)[2]), Tail(kvs), n - 1)

\* The calls of Config::set in set_configs.
set_configs_entries(main_branch_name) ==
    << << <<"branchless.core.mainBranch">>, <<main_branch_name>> >>,
       << <<"advice.detachedHead">>, <<"false">> >>,
       << <<"log.excludeDecoration">>, <<"refs/branchless/*">> >> >>

\* The key and the value install_alias sets.
alias_entry(from, to) ==
    << <<"alias.", from>>,
       IF cfg_man_pages THEN <<"branchless-", to>> ELSE <<"branchless ", to>> >>

\* The calls of Config::set in install_man_pages.
man_pages_entries ==
    << << <<"man.branchless.cmd">>, <<"env MANPATH=.git/", "branchless/man", ": man">> >>,
       << <<"man.viewer">>, <<"branchless">> >> >>

\* GitVersion's order: by major, then minor, then patch.
version_lt(a, b) ==
    \/ a[1] < b[1]
    \/ a[1] = b[1] /\ a[2] < b[2]
    \/ a[1] = b[1] /\ a[2] = b[2] /\ a[3] < b[3]

\* The version below which install_aliases warns.
UNDO_VERSION == <<2, 29, 0>>

\* Config::remove_multivar("include.path", INCLUDE_PATH_REGEX) on the text of
\* <repo>/config: the lines that include a path under branchless/ are removed.
RECURSIVE remove_multivar(_)
remove_multivar(text) ==
    IF text = <<>> THEN <<>>
    ELSE IF /\ Len(text) >= Len(CONFIG_PATH_RELATIVE) + 3
            /\ text[1] = "\tpath = \""
            /\ SubSeq(text, 2, Len(CONFIG_PATH_RELATIVE) + 1) = CONFIG_PATH_RELATIVE
            /\ text[Len(CONFIG_PATH_RELATIVE) + 2] = "\""
            /\ text[Len(CONFIG_PATH_RELATIVE) + 3] = NL
    THEN remove_multivar(SubSeq(text, Len(CONFIG_PATH_RELATIVE) + 4, Len(text)))
    ELSE <<Head(text)>> \o remove_multivar(Tail(text))

\* A variant of the operator below in which no error is returned.
returns_err_never(outcome) == FALSE

\* A variant of the operator below in which a failure to decode or to parse the
\* output of 'git version' is not returned.
returns_err_unless_version(outcome) == outcome \notin {"ok", "from_utf8", "parse"}

\* The operator `?` applied to what a step came to: an error is returned to the
\* caller at once.
returns_err(outcome) == outcome # "ok"

\* A step of the command `cmd` has come to `outcome`.  On an error the command
\* returns it; otherwise the step is complete and the command goes on at
\* `next_pc`, or returns Ok at its end.
Returned(step, outcome, next_pc, next_index) ==
    /\ last_outcome' = outcome
    /\ IF returns_err(outcome)
       THEN /\ result' = "Err"
            /\ UNCHANGED <<trace, pc, index>>
       ELSE /\ trace' = Append(trace, step)
            /\ pc' = next_pc
            /\ index' = next_index
            /\ result' = IF next_pc = "done" THEN "Ok" ELSE "running"
    /\ UNCHANGED <<cmd, runs, cfg_man_pages, hooks_at_start>>

Running(label) == result = "running" /\ pc = label

othersIdle == <<bare_cr_kept, calls, betweenLinesVars, configTextVars, cfg_unix,
                subject_hook, process_umask>>

(***************************************************************************)
(* Spec: the commands init and uninstall, step by step, each step coming   *)
(* to success or to one of its failures, in a repository whose hook files  *)
(* are absent, the user's, or as an earlier init left them.                *)
(***************************************************************************)
\* The main branch names set_configs is given, detects or reads.
MainBranchNames == {"master"}
\* What 'git version' prints, parsed.
GitVersions == {<<1, 30, 2>>, <<2, 28, 5>>, <<2, 29, 0>>}

\* The hook file of a hook type before the first command: absent, a script of
\* the user, a script of the user to which an earlier init added its region, or
\* the file an earlier init created.
InitialFileKinds == {"absent", "user", "user_installed", "created"}

InitialHookFile(file_kind, mode, hook_script) ==
    IF file_kind = "absent" THEN NoFile
    ELSE IF file_kind = "user"
    THEN [exists |-> TRUE, contents |-> SHEBANG \o <<NL, "a", NL>>, mode |-> mode]
    ELSE IF file_kind = "user_installed"
    THEN [exists |-> TRUE,
          contents |-> update_between_lines(SHEBANG \o <<NL, "a", NL>>, hook_script),
          mode |-> IF cfg_unix THEN BitOr(mode, EXECUTE_BITS) ELSE 0]
    ELSE [exists |-> TRUE,
          contents |-> new_hook_contents("RegularHook", NoFile, hook_script),
          mode |-> IF cfg_unix THEN BitOr(mode, EXECUTE_BITS) ELSE 0]

\* The fragment file of a hook type before the first command, in a repository
\* with <repo>/hooks_multi: absent, a script of the user, or the file an earlier
\* init wrote.
InitialFragmentFile(file_kind, mode, hook_script) ==
    IF file_kind = "absent" THEN NoFile
    ELSE IF file_kind = "user"
    THEN [exists |-> TRUE, contents |-> SHEBANG \o <<NL, "a", NL>>, mode |-> mode]
    ELSE [exists |-> TRUE,
          contents |-> new_hook_contents("MultiHook", NoFile, hook_script),
          mode |-> IF cfg_unix THEN BitOr(mode, EXECUTE_BITS) ELSE 0]

\* The text of <repo>/config before the first command: as git wrote it, or as an
\* earlier init left it.
InitialRepoConfigs ==
    { <<"[core]", NL>>,
      update_config_text(<<"[core]", NL>>, CONFIG_PATH_RELATIVE) }

Init ==
    /\ bare_cr_kept = FALSE
    /\ calls = 0
    /\ BetweenLinesIdle
    /\ ConfigTextIdle
    /\ cfg_unix \in BOOLEAN
    /\ cfg_man_pages \in BOOLEAN
    /\ process_umask \in Umasks
    /\ hooks_multi_exists \in BOOLEAN
    /\ \E file_kind \in InitialFileKinds, mode \in (IF cfg_unix THEN InitialModes ELSE {0}) :
          /\ regular_hook =
                [h \in HookTypes |->
                    InitialHookFile(file_kind, mode, HookScript(h))]
          /\ multi_hook =
                [h \in HookTypes |->
                    IF hooks_multi_exists
                    THEN InitialFragmentFile(file_kind, mode, HookScript(h))
                    ELSE NoFile]
    /\ hooks_at_start = HooksNow
    /\ subject_hook = ""
    /\ last_call = NoCall
    /\ repo_config \in InitialRepoConfigs
    /\ isolated_config = NoConfig
    /\ man_pages = FALSE
    /\ undo_warning = FALSE
    /\ cmd = "none"
    /\ pc = ""
    /\ index = 0
    /\ result = ""
    /\ last_outcome = ""
    /\ trace = <<>>
    /\ runs = 0

\* The user runs 'git branchless init'.
StartInit ==
    /\ result # "running"
    /\ runs < MaxRuns
    /\ runs' = runs + 1
    /\ cmd' = "init"
    /\ pc' = "from_current_dir"
    /\ index' = 1
    /\ result' = "running"
    /\ last_outcome' = ""
    /\ trace' = <<>>
    /\ undo_warning' = FALSE
    /\ hooks_at_start' = HooksNow
    /\ UNCHANGED <<othersIdle, diskVars, last_call, cfg_man_pages>>

\* The user runs 'git branchless init --uninstall'.
StartUninstall ==
    /\ result # "running"
    /\ runs < MaxRuns
    /\ runs' = runs + 1
    /\ cmd' = "uninstall"
    /\ pc' = "from_current_dir"
    /\ index' = 1
    /\ result' = "running"
    /\ last_outcome' = ""
    /\ trace' = <<>>
    /\ undo_warning' = FALSE
    /\ hooks_at_start' = HooksNow
    /\ UNCHANGED <<othersIdle, diskVars, last_call, cfg_man_pages>>

\* Repo::from_current_dir()?, the first statement of init and of uninstall.
FromCurrentDir ==
    /\ Running("from_current_dir")
    /\ \E outcome \in {"ok", "from_current_dir"} :
          Returned(<<"from_current_dir", "">>, outcome,
                   IF cmd = "init" THEN "create_isolated_config" ELSE "get_readonly_config", 1)
    /\ UNCHANGED <<othersIdle, diskVars, last_call, undo_warning>>

\* create_isolated_config(effects, old_repo)?.  A failure of create_dir_all, of
\* strip_prefix or of the write leaves <repo>/config as it was; a failure to open
\* the repository or the configuration again comes after the write.  A failure
\* to read <repo>/config is taken for an empty text.
CreateIsolatedConfig ==
    /\ Running("create_isolated_config")
    /\ \E outcome \in {"ok", "create_dir_all", "write", "from_dir"}, read_ok \in BOOLEAN :
          /\ repo_config' =
                IF outcome \in {"ok", "from_dir"}
                THEN update_config_text(IF read_ok THEN repo_config ELSE <<>>,
                                        CONFIG_PATH_RELATIVE)
                ELSE repo_config
          /\ Returned(<<"create_isolated_config", "">>, outcome, "set_configs", 1)
    /\ UNCHANGED <<othersIdle, fsVars, isolated_config, man_pages, last_call, undo_warning>>

\* set_configs(...)?.  "main_branch_name" stands for a failure before the first
\* Config::set: of detect_main_branch_name, of the prompt, or an empty answer;
\* a Config::set that fails leaves the ones before it done.
SetConfigs ==
    /\ Running("set_configs")
    /\ \E main_branch_name \in MainBranchNames,
          outcome \in {"ok", "main_branch_name", "config.set"},
          failing \in 1..Len(set_configs_entries("")) :
          /\ isolated_config' =
                config_set_first(isolated_config, set_configs_entries(main_branch_name),
                                 IF outcome = "ok" THEN Len(set_configs_entries(""))
                                 ELSE IF outcome = "config.set" THEN failing - 1
                                 ELSE 0)
          /\ Returned(<<"set_configs", "">>, outcome, "install_hooks", 1)
    /\ UNCHANGED <<othersIdle, fsVars, repo_config, man_pages, last_call, undo_warning>>

\* One iteration of the loop of install_hooks.
InstallHooksStep ==
    /\ Running("install_hooks")
    /\ \E outcome \in InstallOutcomes(determine_hook_path(hooks_multi_exists)) :
          /\ install_hook(ALL_HOOKS[index].hook_type, ALL_HOOKS[index].hook_script,
                          outcome, process_umask)
          /\ Returned(<<"install_hook", ALL_HOOKS[index].hook_type>>, outcome,
                      IF index = Len(ALL_HOOKS) THEN "install_aliases" ELSE "install_hooks",
                      IF index = Len(ALL_HOOKS) THEN 1 ELSE index + 1)
    /\ UNCHANGED <<othersIdle, repo_config, isolated_config, man_pages, undo_warning>>

\* One iteration of the loop of install_aliases.
InstallAliasesStep ==
    /\ Running("install_aliases")
    /\ \E outcome \in {"ok", "config.set"} :
          /\ isolated_config' =
                IF outcome = "ok"
                THEN config_set(isolated_config,
                                alias_entry(ALL_ALIASES[index].from, ALL_ALIASES[index].to)[1],
                                alias_entry(ALL_ALIASES[index].from, ALL_ALIASES[index].to)[2])
                ELSE isolated_config
          /\ Returned(<<"install_alias", ALL_ALIASES[index].from>>, outcome,
                      IF index = Len(ALL_ALIASES) THEN "git_version" ELSE "install_aliases",
                      IF index = Len(ALL_ALIASES) THEN 1 ELSE index + 1)
    /\ UNCHANGED <<othersIdle, fsVars, repo_config, man_pages, last_call, undo_warning>>

\* The rest of install_aliases: 'git version' is run, its output decoded and
\* parsed, and the warning printed for a version below 2.29.
GitVersionCheck ==
    /\ Running("git_version")
    /\ \E outcome \in {"ok", "run_silent", "from_utf8", "parse"}, version \in GitVersions :
          /\ undo_warning' = (outcome = "ok" /\ version_lt(version, UNDO_VERSION))
          /\ Returned(<<"git_version", "">>, outcome, "install_man_pages", 1)
    /\ UNCHANGED <<othersIdle, diskVars, last_call>>

\* install_man_pages(effects, &repo, &mut config)?, the last step of init.
InstallManPages ==
    /\ Running("install_man_pages")
    /\ \E outcome \in (IF cfg_man_pages
                       THEN {"ok", "strip_prefix", "config.set", "write_man_pages"}
                       ELSE {"ok"}),
          failing \in 1..Len(man_pages_entries) :
          /\ isolated_config' =
                IF ~cfg_man_pages \/ outcome = "strip_prefix" THEN isolated_config
                ELSE config_set_first(isolated_config, man_pages_entries,
                                      IF outcome = "config.set" THEN failing - 1
                                      ELSE Len(man_pages_entries))
          /\ man_pages' = (man_pages \/ (cfg_man_pages /\ outcome = "ok"))
          /\ Returned(<<"install_man_pages", "">>, outcome, "done", 1)
    /\ UNCHANGED <<othersIdle, fsVars, repo_config, last_call, undo_warning>>

\* A variant of the second statement of uninstall after which uninstall goes on
\* at uninstall_hooks and leaves the isolated configuration alone.
GetReadonlyConfig_then_hooks ==
    /\ Running("get_readonly_config")
    /\ \E outcome \in {"ok", "get_readonly_config"} :
          Returned(<<"get_readonly_config", "">>, outcome, "uninstall_hooks", 1)
    /\ UNCHANGED <<othersIdle, diskVars, last_call, undo_warning>>

\* repo.get_readonly_config()?, the second statement of uninstall.
GetReadonlyConfig ==
    /\ Running("get_readonly_config")
    /\ \E outcome \in {"ok", "get_readonly_config"} :
          Returned(<<"get_readonly_config", "">>, outcome, "delete_isolated_config", 1)
    /\ UNCHANGED <<othersIdle, diskVars, last_call, undo_warning>>

\* delete_isolated_config(...)?.  A failure of remove_multivar leaves both files
\* as they were; a failure of remove_file other than NotFound comes after the
\* include is removed.
DeleteIsolatedConfig ==
    /\ Running("delete_isolated_config")
    /\ \E outcome \in {"ok", "remove_multivar", "remove_file"} :
          /\ repo_config' =
                IF outcome = "remove_multivar" THEN repo_config
                ELSE remove_multivar(repo_config)
          /\ isolated_config' = IF outcome = "ok" THEN NoConfig ELSE isolated_config
          /\ Returned(<<"delete_isolated_config", "">>, outcome, "uninstall_hooks", 1)
    /\ UNCHANGED <<othersIdle, fsVars, man_pages, last_call, undo_warning>>

\* One iteration of the loop of uninstall_hooks.
UninstallHooksStep ==
    /\ Running("uninstall_hooks")
    /\ \E outcome \in InstallOutcomes(determine_hook_path(hooks_multi_exists)) :
          /\ install_hook(ALL_HOOKS[index].hook_type, UNINSTALLED_SCRIPT,
                          outcome, process_umask)
          /\ Returned(<<"uninstall_hook", ALL_HOOKS[index].hook_type>>, outcome,
                      IF index = Len(ALL_HOOKS) THEN "done" ELSE "uninstall_hooks",
                      IF index = Len(ALL_HOOKS) THEN 1 ELSE index + 1)
    /\ UNCHANGED <<othersIdle, repo_config, isolated_config, man_pages, undo_warning>>

Next ==
    \/ StartInit
    \/ StartUninstall
    \/ FromCurrentDir
    \/ CreateIsolatedConfig
    \/ SetConfigs
    \/ InstallHooksStep
    \/ InstallAliasesStep
    \/ GitVersionCheck
    \/ InstallManPages
    \/ GetReadonlyConfig
    \/ DeleteIsolatedConfig
    \/ UninstallHooksStep

Spec == Init /\ [][Next]_vars

(***************************************************************************)
(* SpecRerun: the loop of install_hooks (in init) or of uninstall_hooks (in *)
(* uninstall), and the same loop run again, from its first hook, by a new   *)
(* run of the command after the loop has returned an error.  The hook      *)
(* files as they were before the first attempt are remembered.             *)
(***************************************************************************)
InitRerun ==
    /\ bare_cr_kept = FALSE
    /\ calls = 0
    /\ BetweenLinesIdle
    /\ ConfigTextIdle
    /\ cfg_unix = TRUE
    /\ cfg_man_pages = FALSE
    /\ process_umask = 18
    /\ hooks_multi_exists \in BOOLEAN
    /\ \E file_kind \in InitialFileKinds :
          /\ regular_hook =
                [h \in HookTypes |-> InitialHookFile(file_kind, 420, HookScript(h))]
          /\ multi_hook =
                [h \in HookTypes |->
                    IF hooks_multi_exists
                    THEN InitialFragmentFile(file_kind, 420, HookScript(h))
                    ELSE NoFile]
    /\ hooks_at_start = HooksNow
    /\ subject_hook = ""
    /\ last_call = NoCall
    /\ repo_config = <<>>
    /\ isolated_config = NoConfig
    /\ man_pages = FALSE
    /\ undo_warning = FALSE
    /\ cmd \in {"init", "uninstall"}
    /\ pc = (IF cmd = "init" THEN "install_hooks" ELSE "uninstall_hooks")
    /\ index = 1
    /\ result = "running"
    /\ last_outcome = ""
    /\ trace = <<>>
    /\ runs = 1

\* The user runs the command again after it returned the error of a hook: the
\* loop starts again at the first hook of the table.
CallHooksAgain ==
    /\ result = "Err"
    /\ runs < MaxAttempts
    /\ runs' = runs + 1
    /\ index' = 1
    /\ result' = "running"
    /\ last_outcome' = ""
    /\ trace' = <<>>
    /\ UNCHANGED <<othersIdle, diskVars, last_call, hooks_at_start, cfg_man_pages,
                   undo_warning, cmd, pc>>

NextRerun ==
    \/ InstallHooksStep
    \/ UninstallHooksStep
    \/ CallHooksAgain

SpecRerun == InitRerun /\ [][NextRerun]_vars

(***************************************************************************)
(* Vocabulary of the properties.                                           *)
(***************************************************************************)
StartMarkerLines(s) ==
    LET ls == Lines(s) IN {i \in DOMAIN ls : ls[i] = UPDATE_MARKER_START}
EndMarkerLines(s) ==
    LET ls == Lines(s) IN {i \in DOMAIN ls : ls[i] = UPDATE_MARKER_END}
NoMarkerLine(s) == StartMarkerLines(s) = {} /\ EndMarkerLines(s) = {}
NewlineTerminated(s) == s = <<>> \/ s[Len(s)] = NL
\* No line of s, its line ending removed, still ends in a carriage return.
NoLineEndsInCR(s) ==
    LET ls == Lines(s) IN \A i \in DOMAIN ls : ls[i] = StripCR(ls[i])

\* A text holds at most one start-marker line and at most one end-marker line.
AtMostOneRegion(s) ==
    Cardinality(StartMarkerLines(s)) <= 1 /\ Cardinality(EndMarkerLines(s)) <= 1

\* A start-marker line, then the block, then the end marker and its line feed.
RenderedBlock(block) == UPDATE_MARKER_START \o <<NL>> \o block \o UPDATE_MARKER_END \o <<NL>>

\* The step is a call of the operation under study.
IsCall == calls' = calls + 1

\* The file the call of this step writes, before and after the step.
TargetBefore ==
    IF last_call'.kind = "RegularHook"
    THEN regular_hook[last_call'.hook_type]
    ELSE multi_hook[last_call'.hook_type]

TargetAfter ==
    IF last_call'.kind = "RegularHook"
    THEN regular_hook'[last_call'.hook_type]
    ELSE multi_hook'[last_call'.hook_type]

\* The lines of `a` occur in `b`, in the order of `a`.
RECURSIVE IsSubsequence(_, _)
IsSubsequence(a, b) ==
    IF a = <<>> THEN TRUE
    ELSE IF b = <<>> THEN FALSE
    ELSE IF Head(a) = Head(b) THEN IsSubsequence(Tail(a), Tail(b))
    ELSE IsSubsequence(a, Tail(b))

\* The lines of a document read while no region is open that are not
\* start-marker lines, in order; `inside` tells whether a region is open.
RECURSIVE OutsideLines(_, _)
OutsideLines(ls, inside) ==
    IF ls = <<>> THEN <<>>
    ELSE IF Head(ls) = UPDATE_MARKER_START THEN OutsideLines(Tail(ls), TRUE)
    ELSE IF inside
    THEN OutsideLines(Tail(ls), Head(ls) # UPDATE_MARKER_END)
    ELSE <<Head(ls)>> \o OutsideLines(Tail(ls), FALSE)

\* The call of this step has written the contents of the file.
Wrote == last_call'.outcome \in {"ok", "set_permissions"}

\* The configuration text holds a header ... footer span.
HasSection(text) == section_regex_find(text).found

(***************************************************************************)
(* Properties of SpecHook, SpecBetweenLines and SpecConfigText.            *)
(***************************************************************************)

\* C1: when install_hook has succeeded on a flat-mode hook file (absent or of
\* any content before) and is called again with the same hook body and succeeds,
\* the second call leaves the contents of the file as the first call left them.
InstallTwiceLeavesFileIdentical ==
    [][(/\ IsCall
        /\ last_call.outcome = "ok" /\ last_call.kind = "RegularHook"
        /\ last_call'.outcome = "ok" /\ last_call'.kind = "RegularHook"
        /\ last_call'.hook_script = last_call.hook_script)
       => regular_hook'[subject_hook].contents = regular_hook[subject_hook].contents]_vars

\* C2 as stated: for every document and every block without a marker line,
\* whether or not the block ends in a line feed, update_between_lines applied to
\* its own result returns that result.
BlockPatcherIdempotent ==
    (calls = 2 /\ NoMarkerLine(arg_updated_lines)) => ret_new_lines = input_lines

\* C2 amended: for every document of which no line, its line ending removed,
\* still ends in a carriage return, and every block without a marker line that
\* is empty or ends in a line feed, update_between_lines applied to its own
\* result returns that result.
BlockPatcherIdempotentOnWholeLines ==
    (/\ calls = 2
     /\ NoMarkerLine(arg_updated_lines)
     /\ NewlineTerminated(arg_updated_lines)
     /\ NoLineEndsInCR(arg_lines))
    => ret_new_lines = input_lines

\* C2, the case reached: a second call on a document of several regions and user
\* lines, with a block that is not empty.
BlockPatcherIdempotentReached ==
    /\ calls = 2
    /\ NoMarkerLine(arg_updated_lines)
    /\ NewlineTerminated(arg_updated_lines)
    /\ arg_updated_lines # <<>>
    /\ NoLineEndsInCR(arg_lines)
    /\ Cardinality(StartMarkerLines(arg_lines)) = 2
    /\ EndMarkerLines(arg_lines) # {}
    /\ \E i \in DOMAIN Lines(arg_lines) : Lines(arg_lines)[i] = <<"a">>

\* The document has exactly one start-marker line and exactly one end-marker
\* line, the start marker first.
OneRegion(s) ==
    /\ Cardinality(StartMarkerLines(s)) = 1
    /\ Cardinality(EndMarkerLines(s)) = 1
    /\ \A i \in StartMarkerLines(s), j \in EndMarkerLines(s) : i < j

\* C3: for a document with exactly one start-marker line followed later by
\* exactly one end-marker line, update_between_lines returns the lines before the
\* start marker, in order, then the start marker, the new block and the end
\* marker, then the lines after the end marker, in order; no line of the old
\* interior is returned.
RegionPreservation ==
    (calls = 1 /\ OneRegion(arg_lines))
    => LET ls == Lines(arg_lines)
           i == CHOOSE x \in StartMarkerLines(arg_lines) : TRUE
           j == CHOOSE x \in EndMarkerLines(arg_lines) : TRUE
       IN  ret_new_lines = JoinLines(SubSeq(ls, 1, i - 1))
                               \o RenderedBlock(arg_updated_lines)
                               \o JoinLines(SubSeq(ls, j + 1, Len(ls)))

\* C3, the case reached: a document with its only region between two lines, or
\* with a line before a region that has an old interior line, patched with a
\* block of one line; the lines around the region are returned, the old
\* interior line is not.
RegionPreservationReached ==
    /\ calls = 1
    /\ arg_updated_lines = <<"b", NL>>
    /\ \/ /\ arg_lines = <<"a", CR, NL>> \o UPDATE_MARKER_START \o <<NL>>
                               \o UPDATE_MARKER_END \o <<NL, "a">>
          /\ ret_new_lines = <<"a", NL>> \o UPDATE_MARKER_START \o <<NL, "b", NL>>
                                 \o UPDATE_MARKER_END \o <<NL, "a", NL>>
       \/ /\ arg_lines = <<NL>> \o UPDATE_MARKER_START \o <<NL, "a", NL>>
                               \o UPDATE_MARKER_END \o <<NL>>
          /\ ret_new_lines = <<NL>> \o UPDATE_MARKER_START \o <<NL, "b", NL>>
                                 \o UPDATE_MARKER_END \o <<NL>>

\* C4 as stated: after a call of install_hook that succeeded, the file it wrote
\* holds at most one start-marker line and at most one end-marker line, whatever
\* the file held before.
AtMostOneRegionAfterInstall ==
    [][(IsCall /\ last_call'.outcome = "ok") => AtMostOneRegion(TargetAfter.contents)]_vars

\* C4 amended: after a call of install_hook that succeeded on a file that was
\* absent, or held at most one start-marker line and no line that, its line
\* ending removed, still ends in a carriage return, the file holds at most one
\* start-marker line and at most one end-marker line.
AtMostOneRegionAfterInstallOnOneStart ==
    [][(/\ IsCall
        /\ last_call'.outcome = "ok"
        /\ Cardinality(StartMarkerLines(TargetBefore.contents)) <= 1
        /\ NoLineEndsInCR(TargetBefore.contents))
       => AtMostOneRegion(TargetAfter.contents)]_vars

\* C4, the case reached: install_hook has succeeded on a flat-mode file that
\* held user lines and stray end markers but no start marker, and the file now
\* holds one region and the user line.
AtMostOneRegionReached ==
    /\ calls = 1
    /\ last_call.outcome = "ok"
    /\ last_call.kind = "RegularHook"
    /\ ~hooks_multi_exists
    /\ Cardinality(StartMarkerLines(regular_hook[subject_hook].contents)) = 1
    /\ Cardinality(EndMarkerLines(regular_hook[subject_hook].contents)) = 1
    /\ Lines(regular_hook[subject_hook].contents)[1] = <<"a">>

SectionPrepended ==
    (calls = 1 /\ ~HasSection(arg_old_config))
    => ret_new_config = <<SECTION_START, NL>> \o include_contents(arg_config_path)
                            \o <<SECTION_END, NL>> \o arg_old_config

\* C6, the case reached: a text that holds a footer before a header, and so no
\* span, has been patched.
SectionPrependedReached ==
    /\ calls = 1
    /\ ~HasSection(arg_old_config)
    /\ \E i, j \in 1..Len(arg_old_config) :
          i < j /\ FooterAt(arg_old_config, i) /\ HeaderAt(arg_old_config, j)
    /\ arg_config_path = <<"branchless/config">>

\* C7: when the flat-mode hook file does not exist, a call of install_hook that
\* succeeds writes the interpreter line, the start-marker line, the block and the
\* end-marker line, and nothing before, between or after them.
CreateOnMissingExact ==
    [][(/\ IsCall
        /\ last_call'.outcome = "ok" /\ last_call'.kind = "RegularHook"
        /\ ~regular_hook[subject_hook].exists)
       => regular_hook'[subject_hook].contents =
              SHEBANG \o <<NL>> \o RenderedBlock(last_call'.hook_script)]_vars

\* C8: for every document without a start-marker line, update_between_lines
\* returns the lines of the document, in order, then one rendered block, and
\* nothing else.
AppendWhenAbsent ==
    (calls = 1 /\ StartMarkerLines(arg_lines) = {})
    => ret_new_lines = JoinLines(Lines(arg_lines)) \o RenderedBlock(arg_updated_lines)

(***************************************************************************)
(* Properties of Spec.                                                     *)
(***************************************************************************)
\* `part` is a contiguous piece of `text`.
Contains(text, part) ==
    \E i \in 0..(Len(text) - Len(part)) : SubSeq(text, i + 1, i + Len(part)) = part

\* The lines after the start-marker line i of `contents` are the lines of `body`,
\* then at most one empty line, then the end-marker line.
RegionHolds(contents, i, body) ==
    LET ls == Lines(contents)
        n == Len(Lines(body))
    IN  /\ i + n + 1 <= Len(ls)
        /\ SubSeq(ls, i + 1, i + n) = Lines(body)
        /\ \/ ls[i + n + 1] = UPDATE_MARKER_END
           \/ /\ i + n + 2 <= Len(ls)
              /\ ls[i + n + 1] = <<>>
              /\ ls[i + n + 2] = UPDATE_MARKER_END

\* No line of a script of the hook table, other than an empty one, is a line of
\* `contents`.
HoldsNoHookCommand(contents) ==
    \A k \in DOMAIN ALL_HOOKS, i \in DOMAIN Lines(contents) :
        Lines(contents)[i] = <<>>
            \/ \A j \in DOMAIN Lines(ALL_HOOKS[k].hook_script) :
                  Lines(ALL_HOOKS[k].hook_script)[j] # Lines(contents)[i]

\* The hook file holds the script of uninstall_hooks where its hook command was.
HoldsPlaceholder(file) ==
    IF hooks_multi_exists
    THEN file.contents = SHEBANG \o <<NL>> \o UNINSTALLED_SCRIPT
    ELSE /\ StartMarkerLines(file.contents) # {}
         /\ \A i \in StartMarkerLines(file.contents) :
               RegionHolds(file.contents, i, UNINSTALLED_SCRIPT)
         /\ HoldsNoHookCommand(file.contents)

\* C9: when uninstall has come to Ok, and so uninstall_hooks has, the hook file
\* of every hook type of the table exists, holds the script of uninstall_hooks
\* in place of the hook command and, in a build for Unix (the only one that has
\* them), has its execute bits set.
UninstallPlaceholder ==
    (cmd = "uninstall" /\ result = "Ok")
    => \A k \in DOMAIN ALL_HOOKS :
          LET file == HookFile(ALL_HOOKS[k].hook_type)
          IN  /\ file.exists
              /\ HoldsPlaceholder(file)
              /\ cfg_unix => BitAnd(file.mode, EXECUTE_BITS) = EXECUTE_BITS

\* C9, the case reached: uninstall has come to Ok in a build for Unix on hook
\* files of the user that had neither a region nor an execute bit; they keep the
\* line of the user.
UninstallPlaceholderReached ==
    /\ cmd = "uninstall"
    /\ result = "Ok"
    /\ cfg_unix
    /\ ~hooks_multi_exists
    /\ \A h \in HookTypes :
          /\ regular_hook[h].mode = BitOr(420, EXECUTE_BITS)
          /\ Contains(regular_hook[h].contents, <<"a", NL>>)
          /\ Cardinality(StartMarkerLines(regular_hook[h].contents)) = 1

\* The order of the steps of init and of uninstall.
InitOrder ==
    << <<"from_current_dir", "">>,
       <<"create_isolated_config", "">>,
       <<"set_configs", "">>,
       <<"install_hook", "post-commit">>,
       <<"install_hook", "post-merge">>,
       <<"install_hook", "post-rewrite">>,
       <<"install_hook", "post-checkout">>,
       <<"install_hook", "pre-auto-gc">>,
       <<"install_hook", "reference-transaction">>,
       <<"install_alias", "amend">>,
       <<"install_alias", "co">>,
       <<"install_alias", "hide">>,
       <<"install_alias", "move">>,
       <<"install_alias", "next">>,
       <<"install_alias", "prev">>,
       <<"install_alias", "restack">>,
       <<"install_alias", "sl">>,
       <<"install_alias", "smartlog">>,
       <<"install_alias", "undo">>,
       <<"install_alias", "unhide">>,
       <<"git_version", "">>,
       <<"install_man_pages", "">> >>

UninstallOrder ==
    << <<"from_current_dir", "">>,
       <<"get_readonly_config", "">>,
       <<"delete_isolated_config", "">>,
       <<"uninstall_hook", "post-commit">>,
       <<"uninstall_hook", "post-merge">>,
       <<"uninstall_hook", "post-rewrite">>,
       <<"uninstall_hook", "post-checkout">>,
       <<"uninstall_hook", "pre-auto-gc">>,
       <<"uninstall_hook", "reference-transaction">> >>

IsPrefix(t, order) == Len(t) <= Len(order) /\ t = SubSeq(order, 1, Len(t))

\* What a completed step did is on disk.
EffectRemains(step) ==
    IF step[1] = "create_isolated_config"
    THEN Contains(repo_config, section_string(include_contents(CONFIG_PATH_RELATIVE)))
    ELSE IF step[1] = "set_configs"
    THEN \E name \in MainBranchNames :
            \A i \in DOMAIN set_configs_entries(name) :
                set_configs_entries(name)[i] \in isolated_config.entries
    ELSE IF step[1] = "install_hook"
    THEN \E k \in DOMAIN ALL_HOOKS :
            /\ ALL_HOOKS[k].hook_type = step[2]
            /\ HookFile(step[2]).exists
            /\ Contains(HookFile(step[2]).contents, ALL_HOOKS[k].hook_script)
    ELSE IF step[1] = "install_alias"
    THEN \E k \in DOMAIN ALL_ALIASES :
            /\ ALL_ALIASES[k].from = step[2]
            /\ alias_entry(step[2], ALL_ALIASES[k].to) \in isolated_config.entries
    ELSE IF step[1] = "install_man_pages"
    THEN cfg_man_pages
            => /\ man_pages
               /\ \A i \in DOMAIN man_pages_entries :
                     man_pages_entries[i] \in isolated_config.entries
    ELSE IF step[1] = "delete_isolated_config"
    THEN ~isolated_config.exists /\ remove_multivar(repo_config) = repo_config
    ELSE IF step[1] = "uninstall_hook"
    THEN /\ HookFile(step[2]).exists
         /\ Contains(HookFile(step[2]).contents, UNINSTALLED_SCRIPT)
    ELSE TRUE

\* C10: the steps of init and of uninstall complete in their fixed order (init:
\* the section of the isolated configuration, the configuration keys, the hooks
\* in the order of the table, the aliases in the order of the table, the version
\* check, the man pages; uninstall: the isolated configuration, then the hooks in
\* the order of the table); the command returns Err exactly when a step has
\* failed and Ok exactly when every step is complete; what the completed steps
\* did is on disk; and after a step has failed nothing happens but the start of
\* another command, which leaves the disk as it is.
AbortOnFirstFailure ==
    /\ [](cmd # "none"
          => /\ IsPrefix(trace, IF cmd = "init" THEN InitOrder ELSE UninstallOrder)
             /\ result = "Ok" <=> trace = (IF cmd = "init" THEN InitOrder ELSE UninstallOrder)
             /\ result = "Err" <=> last_outcome \notin {"", "ok"}
             /\ \A i \in DOMAIN trace : EffectRemains(trace[i]))
    /\ [][last_outcome \notin {"", "ok"} => (runs' = runs + 1 /\ UNCHANGED diskVars)]_vars

\* C10, the case reached: init has returned Err because the write of the third
\* hook failed; the two hooks before it are installed, the ones after it are not.
AbortOnFirstFailureReached ==
    /\ cmd = "init"
    /\ result = "Err"
    /\ last_outcome = "write"
    /\ trace = SubSeq(InitOrder, 1, 5)
    /\ ~hooks_multi_exists
    /\ regular_hook["post-commit"].exists
    /\ regular_hook["post-merge"].exists
    /\ \A h \in {"post-rewrite", "post-checkout", "pre-auto-gc", "reference-transaction"} :
          regular_hook[h] = NoFile

(***************************************************************************)
(* More properties of SpecBetweenLines and SpecConfigText.                 *)
(***************************************************************************)
\* The start-marker lines of a document that have no end-marker line after them.
UnmatchedStarts(s) ==
    {i \in StartMarkerLines(s) : \A j \in EndMarkerLines(s) : j < i}

\* C14: for a document with a start-marker line that has no end-marker line
\* after it, update_between_lines warns and returns the lines before that start
\* marker followed by one rendered block: no line after the start marker is
\* returned, and no block is appended.
UnterminatedRegion ==
    (calls = 1 /\ UnmatchedStarts(arg_lines) # {})
    => /\ unterminated_warning(arg_lines)
       /\ \E i \in UnmatchedStarts(arg_lines) :
             ret_new_lines = JoinLines(SubSeq(Lines(arg_lines), 1, i - 1))
                                 \o RenderedBlock(arg_updated_lines)

\* C14 amended: for a document with exactly one start-marker line and no
\* end-marker line after it, update_between_lines warns and returns the lines
\* before the start marker that are not end-marker lines, each followed by a
\* newline, followed by one rendered block: no line after the start marker is
\* returned, and no block is appended.
UnterminatedRegionOfOneStart ==
    (/\ calls = 1
     /\ Cardinality(StartMarkerLines(arg_lines)) = 1
     /\ UnmatchedStarts(arg_lines) # {})
    => /\ unterminated_warning(arg_lines)
       /\ \E i \in StartMarkerLines(arg_lines) :
             LET NotEnd(line) == line # UPDATE_MARKER_END
                 before == SubSeq(Lines(arg_lines), 1, i - 1)
             IN  ret_new_lines = JoinLines(SelectSeq(before, NotEnd))
                                     \o RenderedBlock(arg_updated_lines)

\* C14, the case reached: a document with a line, a start marker and two lines
\* after it, and no end marker, has been patched; the two lines are gone.
UnterminatedRegionReached ==
    /\ calls = 1
    /\ arg_lines = <<"a", NL>> \o UPDATE_MARKER_START \o <<NL, "a", NL, "a", NL>>
    /\ arg_updated_lines = <<"b", NL>>
    /\ unterminated_warning(arg_lines)
    /\ ret_new_lines = <<"a", NL>> \o RenderedBlock(<<"b", NL>>)

\* C15: with a block of whole lines that holds no marker line, the lines
\* update_between_lines returns outside the regions are the lines of the
\* document read while no region was open, other than start-marker lines,
\* unchanged and in order; an end-marker line read while no region is open is
\* one of them.
OutsideLinesCopied ==
    (/\ calls = 1
     /\ NoMarkerLine(arg_updated_lines)
     /\ NewlineTerminated(arg_updated_lines))
    => OutsideLines(Lines(ret_new_lines), FALSE) = OutsideLines(Lines(arg_lines), FALSE)

WholeLineBlocks ==
    {b \in Blocks : b # <<>> /\ NewlineTerminated(b) /\ NoMarkerLine(b)}

\* C20 as stated: for every document and every two blocks of whole lines that
\* hold no marker line, update_between_lines with the second block applied to
\* its result with the first block returns what it returns for the document and
\* the second block.
LastWriteWins ==
    (calls = 1 /\ arg_updated_lines \in WholeLineBlocks)
    => \A b2 \in WholeLineBlocks :
          update_between_lines(ret_new_lines, b2) = update_between_lines(arg_lines, b2)

\* C20 amended: the same, for the documents of which no line, its line ending
\* removed, still ends in a carriage return.
LastWriteWinsOnWholeLines ==
    (/\ calls = 1
     /\ arg_updated_lines \in WholeLineBlocks
     /\ NoLineEndsInCR(arg_lines))
    => \A b2 \in WholeLineBlocks :
          update_between_lines(ret_new_lines, b2) = update_between_lines(arg_lines, b2)

\* C20, the case reached: a document with a user line, a region with an old
\* body and a line after it has been patched with one block, and another block
\* differs from it.
LastWriteWinsReached ==
    /\ calls = 1
    /\ arg_updated_lines = <<"b", NL>>
    /\ <<NL, "b", NL>> \in WholeLineBlocks
    /\ arg_lines = <<"a", NL>> \o UPDATE_MARKER_START \o <<NL, "a", NL>>
                       \o UPDATE_MARKER_END \o <<NL>>
    /\ ret_new_lines = <<"a", NL>> \o RenderedBlock(<<"b", NL>>)

(***************************************************************************)
(* More properties of Spec.                                                *)
(***************************************************************************)
\* This step is an iteration of the loop of install_hooks or of
\* uninstall_hooks in which install_hook returns Ok.
HookStepOk ==
    /\ Running("install_hooks") \/ Running("uninstall_hooks")
    /\ trace' # trace
    /\ last_outcome' = "ok"

\* Bit b of the permission bits m.
Bit(m, b) == (m \div (2 ^ b)) % 2

\* The permission bits of the file once write_script's std::fs::write has
\* written it: those it had, or for a new file 0o666 without the umask's bits.
ModeAfterContentWrite ==
    IF TargetBefore.exists
    THEN TargetBefore.mode
    ELSE CREATE_MODE - BitAnd(CREATE_MODE, process_umask)

\* C13: in a build for Unix, when write_script has succeeded each of the nine
\* permission bits of the file is set if it is one of the three execute bits
\* (0o100, 0o010, 0o001), and is otherwise as it was after the content write.
ExecuteBitsOred ==
    [][(HookStepOk /\ cfg_unix)
       => \A b \in 0..8 :
             Bit(TargetAfter.mode, b) =
                 IF b \in {0, 3, 6} THEN 1 ELSE Bit(ModeAfterContentWrite, b)]_vars

\* C13, the cases reached: init has created a hook file under the umask 0o077,
\* which has the mode 0o711; and has written a file of mode 0o750, which has
\* the mode 0o751.
ExecuteBitsOredReached ==
    /\ cfg_unix
    /\ cmd = "init"
    /\ last_call.outcome = "ok"
    /\ \/ /\ process_umask = 63
          /\ ~hooks_at_start.regular_hook[last_call.hook_type].exists
          /\ ~hooks_multi_exists
          /\ regular_hook[last_call.hook_type].mode = 457
       \/ /\ hooks_at_start.regular_hook[last_call.hook_type].exists
          /\ hooks_at_start.regular_hook[last_call.hook_type].mode = 488
          /\ ~hooks_multi_exists
          /\ regular_hook[last_call.hook_type].mode = 489

\* init could not decode or parse the output of 'git version'.
VersionFailed == cmd = "init" /\ last_outcome \in {"from_utf8", "parse"}

\* Every hook of the hook table and every alias of the alias table has been
\* installed by this command, and is on disk.
HooksAndAliasesInstalled ==
    \A i \in DOMAIN InitOrder :
        InitOrder[i][1] \in {"install_hook", "install_alias"}
            => /\ \E j \in DOMAIN trace : trace[j] = InitOrder[i]
               /\ EffectRemains(InitOrder[i])

\* C12 as stated: when the output of 'git version' cannot be decoded or parsed,
\* every hook and every alias is installed and init is not aborted.
VersionFailureNotFatal ==
    VersionFailed => (HooksAndAliasesInstalled /\ result # "Err")

\* C12 amended: when the output of 'git version' cannot be decoded or parsed,
\* every hook and every alias has been installed (their loops come first), init
\* returns the error, install_man_pages has not run, and nothing happens on
\* disk until another command starts.
VersionFailureFatal ==
    /\ [](VersionFailed
          => /\ HooksAndAliasesInstalled
             /\ result = "Err"
             /\ \A j \in DOMAIN trace : trace[j][1] # "install_man_pages")
    /\ [][VersionFailed => (runs' = runs + 1 /\ UNCHANGED diskVars)]_vars

\* C12, the case reached: in a build with man pages, init has returned the
\* error of the parse of the version; the six hooks and the eleven aliases are
\* installed, the man pages are not.
VersionFailureFatalReached ==
    /\ cmd = "init"
    /\ last_outcome = "parse"
    /\ result = "Err"
    /\ cfg_man_pages
    /\ ~man_pages
    /\ Len(trace) = 3 + Len(ALL_HOOKS) + Len(ALL_ALIASES)
    /\ HooksAndAliasesInstalled

\* The hook files are as they were when the command started.
HooksUntouched ==
    /\ regular_hook = hooks_at_start.regular_hook
    /\ multi_hook = hooks_at_start.multi_hook

\* uninstall could not remove the isolated configuration.
ConfigRemovalFailed ==
    cmd = "uninstall" /\ last_outcome \in {"remove_multivar", "remove_file"}

\* C18 as stated: uninstall replaces the body of every hook before it deletes
\* the isolated configuration: when delete_isolated_config has run, or has
\* failed, every hook file holds the placeholder.
HooksInertBeforeConfigRemoval ==
    (/\ cmd = "uninstall"
     /\ \/ ConfigRemovalFailed
        \/ \E j \in DOMAIN trace : trace[j][1] = "delete_isolated_config")
    => \A h \in HookTypes : HookFile(h).exists /\ HoldsPlaceholder(HookFile(h))

\* C18 amended: uninstall deletes the isolated configuration and removes its
\* include before it writes any hook file: as long as delete_isolated_config has
\* not completed the hook files are as they were when uninstall started, and
\* so they are when the removal of the configuration has failed; once a hook
\* has been uninstalled the isolated configuration and its include are gone.
ConfigRemovedBeforeHooks ==
    cmd = "uninstall"
    => /\ (\A j \in DOMAIN trace : trace[j][1] # "delete_isolated_config")
             => HooksUntouched
       /\ ConfigRemovalFailed => (result = "Err" /\ HooksUntouched)
       /\ (\E j \in DOMAIN trace : trace[j][1] = "uninstall_hook")
             => EffectRemains(<<"delete_isolated_config", "">>)

\* C18, the case reached: uninstall has returned the error of the removal of the
\* isolated configuration file, and every hook file still holds the hook command
\* an earlier init installed.
ConfigRemovedBeforeHooksReached ==
    /\ ConfigRemovalFailed
    /\ last_outcome = "remove_file"
    /\ result = "Err"
    /\ HooksUntouched
    /\ \A h \in HookTypes :
          /\ HookFile(h).exists
          /\ Contains(HookFile(h).contents, HookScript(h))

\* This step is an iteration of the loop of install_hooks in which
\* install_hook returns Ok.
InstallStepOk ==
    /\ Running("install_hooks")
    /\ trace' # trace
    /\ last_outcome' = "ok"

\* The lines of the file before the step that lie outside a region are lines of
\* the file after the step, in the same order.
OutsideLinesKept ==
    IsSubsequence(OutsideLines(Lines(TargetBefore.contents), FALSE),
                  Lines(TargetAfter.contents))

HooksLoopOk ==
    \/ cmd = "init" /\ pc = "install_aliases"
    \/ cmd = "uninstall" /\ result = "Ok"

\* The file of a hook type after one run of the loop in which every call of
\* install_hook returns Ok, from the files as they were before the first
\* attempt.
UninterruptedFile(hook_type) ==
    update_hook_contents(
        determine_hook_path(hooks_at_start.hooks_multi_exists),
        IF hooks_at_start.hooks_multi_exists
        THEN hooks_at_start.multi_hook[hook_type]
        ELSE hooks_at_start.regular_hook[hook_type],
        IF cmd = "init" THEN HookScript(hook_type) ELSE UNINSTALLED_SCRIPT,
        "ok", process_umask)

\* C11: when the loop over the hooks has returned Ok, at the first attempt or
\* after attempts that returned an error at some hook, every hook file holds
\* what one uninterrupted run of the loop from the same initial files gives.
RerunConverges ==
    HooksLoopOk
    => \A h \in HookTypes :
          /\ HookFile(h).exists
          /\ HookFile(h).contents = UninterruptedFile(h).contents

(***************************************************************************)
(* Properties of SpecSequence.                                             *)
(***************************************************************************)
\* The hook file under study as it was before the first call, and as it is.
OriginalFile == hooks_at_start.regular_hook[subject_hook]
CurrentFile == regular_hook[subject_hook]

\* A call has written the hook file under study.
Written ==
    /\ CurrentFile.exists
    /\ OriginalFile.exists => CurrentFile.contents # OriginalFile.contents

\* The file holds one region, and every line of the original file stands, in
\* the original order, before its start marker.
OneRegionAfterOriginal ==
    /\ OneRegion(CurrentFile.contents)
    /\ \A i \in StartMarkerLines(CurrentFile.contents) :
          IsSubsequence(IF OriginalFile.exists THEN Lines(OriginalFile.contents) ELSE <<>>,
                        SubSeq(Lines(CurrentFile.contents), 1, i - 1))

\* C19 as stated: from a flat-mode hook file that is absent or holds no marker
\* line, once calls of install_hook have written the file it holds exactly
\* one start-marker line and exactly one end-marker line, the start marker
\* before the end marker, and every line of the original file, in order,
\* before the start marker.
SequenceInvariant == Written => OneRegionAfterOriginal

\* C19 amended: the same, for an original file in which no line, its line
\* ending removed, still ends in a carriage return.
SequenceInvariantOnWholeLines ==
    (Written /\ (OriginalFile.exists => NoLineEndsInCR(OriginalFile.contents)))
    => OneRegionAfterOriginal

\* C19, the case reached: install and then uninstall have succeeded on a file
\* of two lines of the user, which stand before the one region, and the region
\* holds the script of uninstall_hooks.
SequenceInvariantReached ==
    /\ calls = 2
    /\ OriginalFile.exists
    /\ OriginalFile.contents = <<"a", NL, "a", NL>>
    /\ last_call.outcome = "ok"
    /\ last_call.hook_script = UNINSTALLED_SCRIPT
    /\ CurrentFile.contents = <<"a", NL, "a", NL>> \o RenderedBlock(UNINSTALLED_SCRIPT)

(***************************************************************************)
(* More properties of SpecHook.                                            *)
(***************************************************************************)
\* The file at the path of the other mode holds the hook command of the table
\* for the hook type: in `flat` when the call resolves to the fragment path, in
\* `fragment` when it resolves to the flat path.
OtherPathActive(flat, fragment, hook_type) ==
    LET other == IF hooks_multi_exists THEN flat[hook_type] ELSE fragment[hook_type]
    IN  other.exists /\ Contains(other.contents, HookScript(hook_type))

\* C22: a call of install_hook, by install_hooks or by uninstall_hooks, resolves
\* to the fragment path exactly when <repo>/hooks_multi exists at the call; a
\* call that gets to write writes the file at that path; the file of the hook
\* type at the other path, and the files of the other hook types at both, are
\* as they were; so a hook command at the other path stays.
OnlyResolvedPathWritten ==
    [][IsCall
       => LET hook_type == last_call'.hook_type
          IN  /\ last_call'.kind = "MultiHook" <=> hooks_multi_exists
              /\ IF hooks_multi_exists
                 THEN /\ regular_hook' = regular_hook
                      /\ Wrote => /\ multi_hook'[hook_type].exists
                                  /\ Contains(multi_hook'[hook_type].contents,
                                              last_call'.hook_script)
                 ELSE /\ multi_hook' = multi_hook
                      /\ Wrote => /\ regular_hook'[hook_type].exists
                                  /\ Contains(regular_hook'[hook_type].contents,
                                              last_call'.hook_script)
              /\ \A h \in HookTypes \ {hook_type} :
                    regular_hook'[h] = regular_hook[h] /\ multi_hook'[h] = multi_hook[h]
              /\ OtherPathActive(regular_hook, multi_hook, hook_type)
                    => OtherPathActive(regular_hook', multi_hook', hook_type)]_vars

\* C22, the case reached: install_hooks wrote the flat file, <repo>/hooks_multi
\* appeared, and uninstall_hooks has written the placeholder to the fragment
\* file; the flat file still holds the hook command.
OnlyResolvedPathWrittenReached ==
    /\ calls = 2
    /\ hooks_multi_exists
    /\ last_call.kind = "MultiHook"
    /\ last_call.outcome = "ok"
    /\ last_call.hook_script = UNINSTALLED_SCRIPT
    /\ multi_hook[subject_hook].contents = SHEBANG \o <<NL>> \o UNINSTALLED_SCRIPT
    /\ regular_hook[subject_hook].exists
    /\ regular_hook[subject_hook].contents =
          new_hook_contents("RegularHook", NoFile, HookScript(subject_hook))

(***************************************************************************)
(* Properties of SpecExisting.                                             *)
(***************************************************************************)
\* Every start-marker line of the document is followed by an end-marker line
\* before any further start-marker line.
WellTerminated(s) ==
    \A i \in StartMarkerLines(s) :
        \E j \in EndMarkerLines(s) :
            /\ i < j
            /\ \A k \in StartMarkerLines(s) : ~(i < k /\ k < j)

\* Under SpecBetweenLines: what update_between_lines returns for a document
\* without a line ending in a carriage return and a whole-line, marker-free
\* block has no unterminated region.
OutputWellTerminated ==
    (/\ calls >= 1
     /\ arg_updated_lines \in WholeLineBlocks
     /\ NoLineEndsInCR(arg_lines))
    => WellTerminated(ret_new_lines)

\* C21 as stated: what update_between_lines returns for the hook file and a
\* script has no unterminated region, and no call of install_hook but the
\* first one on the file takes the path of the warning.
SelfHealing ==
    [][IsCall
       => /\ Wrote => WellTerminated(TargetAfter.contents)
          /\ (calls >= 1 /\ last_call'.outcome # "read_to_string")
                => ~unterminated_warning(TargetBefore.contents)]_vars

\* C21 amended: for an original file in which no line, its line ending
\* removed, still ends in a carriage return, what a call writes has no
\* unterminated region, and a call takes the path of the warning only on the
\* file as it was originally, that is, as long as no call has written it.
SelfHealingOnWholeLines ==
    [][(IsCall /\ NoLineEndsInCR(OriginalFile.contents))
       => /\ Wrote => WellTerminated(TargetAfter.contents)
          /\ (last_call'.outcome # "read_to_string"
                 /\ unterminated_warning(TargetBefore.contents))
                => TargetBefore.contents = OriginalFile.contents]_vars

\* C21, the case reached: the original file held a line of the user, a start
\* marker and a line after it, without an end marker; after two calls, the last
\* one the successful call of uninstall_hooks, the file is the line of the user
\* and one region, and the line after the start marker is lost.
SelfHealingReached ==
    /\ calls = 2
    /\ OriginalFile.contents = <<"a", NL>> \o UPDATE_MARKER_START \o <<NL, "a", NL>>
    /\ unterminated_warning(OriginalFile.contents)
    /\ last_call.outcome = "ok"
    /\ last_call.hook_script = UNINSTALLED_SCRIPT
    /\ CurrentFile.contents = <<"a", NL>> \o RenderedBlock(UNINSTALLED_SCRIPT)
    /\ WellTerminated(CurrentFile.contents)

====
